---- MODULE Spec2Model ----
(***************************************************************************)
(* The crossword constraint-satisfaction solver of week3/crossword:        *)
(* CrosswordCreator (generate.py) over the Crossword grid model.           *)
(*                                                                         *)
(* Words are sequences of letters; Python's 0-based word[k] is Char(w, k). *)
(* Python sets and dicts keyed by hash are iterated in an order the        *)
(* program does not control: the order of the variables is chosen once     *)
(* (order), every other set iteration is a nondeterministic choice.        *)
(* A raised exception ends the running call; the call's kind of return is  *)
(* recorded in ret.kind ("None", "True", "False", "assignment",            *)
(* "variable", "KeyError", "IndexError").                                  *)
(***************************************************************************)
EXTENDS Integers, Sequences, FiniteSets, TLC

VARIABLES
    crossword,   \* self.crossword: [variables, words]
    order,       \* iteration order of self.domains / crossword.variables
    domains,     \* self.domains
    pc,          \* "idle" | "ac3" | "bt_call" | "bt_loop" | "bt_return"
    op,          \* the API call running or last finished
    arg,         \* its arguments
    ret,         \* [kind, val]: how the last finished call returned
    arc_queue,   \* ac3's local arc_queue
    frames,      \* the active backtrack calls: [var, keys, tried, entered];
                 \* entered, read by the properties only, is the assignment
                 \* the call was entered with
    assignment,  \* the dict passed down backtrack, in insertion order
    result,      \* the value a backtrack call is returning
    before,      \* self.domains when the running/last call started
    prev,        \* [op, kind] of the call before the running/last one
    ncalls,      \* API calls made so far
    solutions    \* auxiliary, read by the properties only: the satisfying
                 \* complete assignments of the puzzle, fixed at construction

vars == <<crossword, order, domains, pc, op, arg, ret, arc_queue, frames,
          assignment, result, before, prev, ncalls, solutions>>

-----------------------------------------------------------------------------
(* Bounds of the model *)

MaxWords == 3

MaxCalls == 2

\* how far from min_remaining_values the sizes of the large dictionaries go
MaxAway == 50

(* The words the dictionaries are drawn from *)
Universe ==
    { <<"A","B","C">>, <<"A","D","E">>, <<"X","Y","Z">>,
      <<"A","B","A">>, <<"C","B","C">>, <<"A","B">> }

Dictionaries == {W \in SUBSET Universe : Cardinality(W) <= MaxWords}

(* The grids the structures are drawn from: open is the set of fillable cells *)
Structures ==
    { [height |-> 1, width |-> 1, open |-> {}],
      [height |-> 3, width |-> 3,
       open |-> {<<0,0>>, <<0,1>>, <<0,2>>, <<1,0>>, <<2,0>>}],
      [height |-> 3, width |-> 3,
       open |-> {<<0,0>>, <<0,1>>, <<0,2>>, <<1,2>>, <<2,0>>, <<2,1>>, <<2,2>>}],
      [height |-> 2, width |-> 3,
       open |-> {<<0,0>>, <<0,1>>, <<0,2>>, <<1,0>>}] }

-----------------------------------------------------------------------------
(* Grid Model: Variable and Crossword *)

ACROSS == "across"

DOWN == "down"

NoOverlap == <<>>

NoVar == [i |-> -1, j |-> -1, direction |-> "none", length |-> 0]

\* length of the maximal run of fillable cells from (i, j) in a direction
RunLength(s, i, j, direction) ==
    IF direction = ACROSS
    THEN Cardinality({k \in 0..(s.width - 1) :
                        \A m \in 0..k : <<i, j + m>> \in s.open})
    ELSE Cardinality({k \in 0..(s.height - 1) :
                        \A m \in 0..k : <<i + m, j>> \in s.open})

\* one variable per maximal run of at least two fillable cells
VariablesOf(s) ==
    { [i |-> c[1], j |-> c[2], direction |-> ACROSS,
       length |-> RunLength(s, c[1], c[2], ACROSS)] :
         c \in {d \in s.open : /\ <<d[1], d[2] - 1>> \notin s.open
                               /\ RunLength(s, d[1], d[2], ACROSS) >= 2} }
    \cup
    { [i |-> c[1], j |-> c[2], direction |-> DOWN,
       length |-> RunLength(s, c[1], c[2], DOWN)] :
         c \in {d \in s.open : /\ <<d[1] - 1, d[2]>> \notin s.open
                               /\ RunLength(s, d[1], d[2], DOWN) >= 2} }

\* the cell of the k-th character of variable v
Cell(v, k) ==
    IF v.direction = DOWN THEN <<v.i + k, v.j>> ELSE <<v.i, v.j + k>>

\* crossword.overlaps[x, y]: NoOverlap, or <<kx, ky>> (0-based)
Overlap(x, y) ==
    LET shared == {p \in (0..(x.length - 1)) \X (0..(y.length - 1)) :
                     Cell(x, p[1]) = Cell(y, p[2])}
    IN  IF shared = {} THEN NoOverlap ELSE CHOOSE p \in shared : TRUE

\* crossword.neighbors(var)
Neighbors(var) ==
    {v \in crossword.variables : v # var /\ Overlap(v, var) # NoOverlap}

-----------------------------------------------------------------------------
(* Helpers for Python values *)

\* word[k], 0-based; an IndexError when k >= len(word)
Char(w, k) == w[k + 1]

\* the orders in which a set can be iterated
Perms(S) ==
    {s \in [1..Cardinality(S) -> S] : \A a, b \in DOMAIN s : s[a] = s[b] => a = b}

\* position of v in the iteration order of the variables
Pos(v) == CHOOSE k \in DOMAIN order : order[k] = v

Ret(kind) == [kind |-> kind, val |-> <<>>]

-----------------------------------------------------------------------------
(* The constraints of the puzzle *)

\* the constraints on a mapping f from variables to words
LengthsFit(f) == \A v \in DOMAIN f : Len(f[v]) = v.length

AllDistinct(f) == \A u, v \in DOMAIN f : u # v => f[u] # f[v]

OverlapsAgree(f) ==
    \A u, v \in DOMAIN f :
       (u # v /\ Overlap(u, v) # NoOverlap) =>
          /\ Len(f[u]) > Overlap(u, v)[1]
          /\ Len(f[v]) > Overlap(u, v)[2]
          /\ Char(f[u], Overlap(u, v)[1]) = Char(f[v], Overlap(u, v)[2])

Satisfies(f) == LengthsFit(f) /\ AllDistinct(f) /\ OverlapsAgree(f)

\* the complete assignments of variables V to words of W that satisfy every
\* constraint
SolutionsOf(V, W) == {f \in [V -> W] : Satisfies(f)}

-----------------------------------------------------------------------------
(* CrosswordCreator.__init__ *)

\* the solver right after construction: every domain is a copy of the words
Constructed(s, W, o) ==
    /\ crossword = [variables |-> VariablesOf(s), words |-> W]
    /\ order = o
    /\ domains = [v \in VariablesOf(s) |-> W]
    /\ pc = "idle"
    /\ op = "init"
    /\ ret = Ret("None")
    /\ arc_queue = <<>>
    /\ frames = <<>>
    /\ assignment = <<>>
    /\ result = Ret("None")
    /\ before = [v \in VariablesOf(s) |-> W]
    /\ prev = [op |-> "init", kind |-> "None"]
    /\ ncalls = 0
    /\ solutions = SolutionsOf(VariablesOf(s), W)

Init ==
    \E s \in Structures, W \in Dictionaries :
      \E o \in Perms(VariablesOf(s)) :
        /\ Constructed(s, W, o)
        /\ arg = <<>>

-----------------------------------------------------------------------------
(* enforce_node_consistency *)

\* faulty variant: only the words that are too short
WrongLengthShorter(v) == {w \in crossword.words : Len(w) < v.length}

\* the words whose length differs from v's
WrongLength(v) == {w \in crossword.words : Len(w) # v.length}

\* faulty variant: every domain rebuilt from the dictionary instead of pruned
EnforceOutcomesRebuilt(dom) ==
    {[domains |-> [v \in DOMAIN dom |-> crossword.words \ WrongLength(v)],
      kind |-> "None"]}

\* The possible ends of enforce_node_consistency on store dom: set.remove(word)
\* raises KeyError when the word is not in the domain; the removals made before
\* the raise stay. The words are iterated in an order of the set's own, so any
\* part of the raising variable's wrong-length words may be gone by then.
EnforceOutcomes(dom) ==
    LET Missing(v) == WrongLength(v) \ dom[v]
        Clean(v)   == dom[v] \ WrongLength(v)
        raising    == {k \in DOMAIN order : Missing(order[k]) # {}}
    IN  IF raising = {}
        THEN {[domains |-> [v \in DOMAIN dom |-> Clean(v)], kind |-> "None"]}
        ELSE LET k == CHOOSE a \in raising : \A b \in raising : a <= b
                 u == order[k]
             IN  {[domains |->
                     [v \in DOMAIN dom |->
                        IF Pos(v) < k THEN Clean(v)
                        ELSE IF v = u THEN dom[v] \ R
                        ELSE dom[v]],
                   kind |-> "KeyError"] :
                    R \in SUBSET (WrongLength(u) \cap dom[u])}

-----------------------------------------------------------------------------
(* revise *)

\* faulty variant: the comparison negated: the words that differ from letter
PossibleWordsDiffer(dom, y, ky, letter) ==
    {y_word \in dom[y] : Len(y_word) > ky /\ Char(y_word, ky) # letter}

\* the words of y's domain that make any(...) true for letter
PossibleWords(dom, y, ky, letter) ==
    {y_word \in dom[y] : Len(y_word) > ky /\ Char(y_word, ky) = letter}

\* faulty variant: a revision is reported for every pair that has an overlap,
\* whether or not a word was removed
ReviseOutcomesReported(dom, x, y) ==
    {[domains |-> dom,
      kind |-> IF Overlap(x, y) = NoOverlap THEN "False" ELSE "True"]}

\* The possible ends of revise(x, y) on store dom. word[k] and y_word[k] raise
\* IndexError on a word that is too short; any() stops at the first match, so
\* with a too-short word in y's domain the end depends on the iteration order.
ReviseOutcomes(dom, x, y) ==
    LET overlaps == Overlap(x, y)
    IN  IF overlaps = NoOverlap
        THEN {[domains |-> dom, kind |-> "False"]}
        ELSE
          LET kx == overlaps[1]
              ky == overlaps[2]
              shortY == {yw \in dom[y] : Len(yw) <= ky}
              Match(w) == IF Len(w) <= kx THEN {}
                          ELSE PossibleWords(dom, y, ky, Char(w, kx))
              MustRaise(w) == Len(w) <= kx \/ (shortY # {} /\ Match(w) = {})
              CanRaise(w) == Len(w) <= kx \/ shortY # {}
              removable == {w \in dom[x] : ~MustRaise(w) /\ Match(w) = {}}
              finished ==
                IF \E w \in dom[x] : MustRaise(w) THEN {}
                ELSE {[domains |-> [dom EXCEPT ![x] = dom[x] \ removable],
                       kind |-> IF removable = {} THEN "False" ELSE "True"]}
              raised ==
                IF \E w \in dom[x] : CanRaise(w)
                THEN {[domains |-> [dom EXCEPT ![x] = dom[x] \ R],
                       kind |-> "IndexError"] : R \in SUBSET removable}
                ELSE {}
          IN  finished \cup raised

-----------------------------------------------------------------------------
(* API calls on one solver; each starts when no call is running.           *)
(* CanCall and Started are bookkeeping: they bound the number of calls and *)
(* record op, arg, before and prev for the properties.                     *)

CanCall == pc = "idle" /\ ncalls < MaxCalls

Started(name, a) ==
    /\ op' = name
    /\ arg' = a
    /\ before' = domains
    /\ prev' = [op |-> op, kind |-> ret.kind]
    /\ ncalls' = ncalls + 1

\* creator.enforce_node_consistency()
CallEnforce ==
    /\ CanCall
    /\ Started("enforce_node_consistency", <<>>)
    /\ \E o \in EnforceOutcomes(domains) :
         /\ domains' = o.domains
         /\ ret' = Ret(o.kind)
    /\ UNCHANGED <<crossword, order, solutions, pc, arc_queue, frames,
                   assignment, result>>

\* creator.revise(x, y) for distinct variables
CallRevise ==
    /\ CanCall
    /\ \E x, y \in crossword.variables :
         /\ x # y
         /\ Started("revise", <<x, y>>)
         /\ \E o \in ReviseOutcomes(domains, x, y) :
              /\ domains' = o.domains
              /\ ret' = Ret(o.kind)
    /\ UNCHANGED <<crossword, order, solutions, pc, arc_queue, frames,
                   assignment, result>>

-----------------------------------------------------------------------------
(* ac3 *)

\* the default worklist: every ordered pair of distinct variables, in the
\* order of the two nested loops over self.domains
RECURSIVE AllArcs(_, _)
AllArcs(a, b) ==
    IF a > Len(order) THEN <<>>
    ELSE IF b > Len(order) THEN AllArcs(a + 1, 1)
    ELSE IF a = b THEN AllArcs(a, b + 1)
    ELSE <<<<order[a], order[b]>>>> \o AllArcs(a, b + 1)

InitialArcs == AllArcs(1, 1)

\* the arcs appended after a revision of x, for one iteration order of neighbors
Requeued(x, neighbors) == [k \in DOMAIN neighbors |-> <<x, neighbors[k]>>]

\* the arcs a caller can hand to ac3: ordered pairs of distinct variables
Arcs == {<<x, y>> : x, y \in crossword.variables} \ {<<x, x>> : x \in crossword.variables}

\* the lists of arcs ac3(arcs) is called with: the empty list and every list
\* of one arc
Worklists == {<<>>} \cup {<<arc>> : arc \in Arcs}

\* arc_queue = arcs; the default list when arcs is None. given is <<>> for
\* ac3() and <<arcs>> for ac3(arcs).
InitialQueue(given) == IF given = <<>> THEN InitialArcs ELSE given[1]

\* arc_queue.pop() takes the last arc
Popped(queue) == queue[Len(queue)]

\* arc_queue after arc_queue.pop()
Rest(queue) == SubSeq(queue, 1, Len(queue) - 1)

\* the start of ac3 up to its while loop
Ac3Started(given) ==
    /\ Started("ac3", given)
    /\ arc_queue' = InitialQueue(given)
    /\ pc' = "ac3"
    /\ UNCHANGED <<crossword, order, solutions, domains, ret, frames,
                   assignment, result>>

\* creator.ac3()
CallAc3 == CanCall /\ Ac3Started(<<>>)

\* creator.ac3(arcs)
CallAc3Arcs == CanCall /\ \E arcs \in Worklists : Ac3Started(<<arcs>>)

\* ac3 returned (or raised) with the given kind: back to the caller
Ac3Ends(kind) ==
    IF op = "solve" /\ kind \in {"None", "False"}
    THEN /\ pc' = "bt_call"
         /\ UNCHANGED ret
    ELSE /\ pc' = "idle"
         /\ ret' = Ret(kind)

\* one iteration of ac3's while loop, or its end when the queue is empty
Ac3Step ==
    /\ pc = "ac3"
    /\ IF arc_queue = <<>>
       THEN /\ Ac3Ends("None")
            /\ UNCHANGED <<domains, arc_queue>>
       ELSE LET arc  == Popped(arc_queue)
                rest == Rest(arc_queue)
            IN  \E o \in ReviseOutcomes(domains, arc[1], arc[2]) :
                  /\ domains' = o.domains
                  /\ IF o.kind = "IndexError"
                     THEN /\ Ac3Ends("IndexError")
                          /\ arc_queue' = <<>>
                     ELSE IF o.kind = "True" /\ o.domains[arc[1]] = {}
                     THEN /\ Ac3Ends("False")
                          /\ arc_queue' = <<>>
                     ELSE IF o.kind = "True"
                     THEN /\ \E n \in Perms(Neighbors(arc[1])) :
                               arc_queue' = rest \o Requeued(arc[1], n)
                          /\ UNCHANGED <<pc, ret>>
                     ELSE /\ arc_queue' = rest
                          /\ UNCHANGED <<pc, ret>>
    /\ UNCHANGED <<crossword, order, solutions, op, arg, frames, assignment,
                   result, before, prev, ncalls>>

-----------------------------------------------------------------------------
(* Assignments: a dict, kept as its <<variable, word>> items in insertion order *)

AsgKeys(a) == {a[k][1] : k \in DOMAIN a}

AsgGet(a, v) == a[CHOOSE k \in DOMAIN a : a[k][1] = v][2]

\* faulty variant: complete as soon as any variable is bound
AssignmentCompleteAny(a) == a # <<>>

\* assignment_complete: every variable is a key and its word is not empty
AssignmentComplete(a) ==
    \A v \in crossword.variables : v \in AsgKeys(a) /\ AsgGet(a, v) # <<>>

\* faulty variant: the overlaps are not looked at, only duplicates and lengths
ConsistentFromDistinct(a, k) ==
    IF /\ \A p, q \in DOMAIN a : a[p][2] = a[q][2] => p = q
       /\ \A p \in DOMAIN a : a[p][1].length = Len(a[p][2])
    THEN {"True"}
    ELSE {"False"}

\* The possible ends of consistent(a): "True", "False" or "IndexError".
\* Item k is checked for a duplicate word, then its length, then against its
\* assigned neighbours, whose word is indexed before its own length was checked.
RECURSIVE ConsistentFrom(_, _)
ConsistentFrom(a, k) ==
    IF k > Len(a) THEN {"True"}
    ELSE
      LET var  == a[k][1]
          word == a[k][2]
          assigned == {n \in Neighbors(var) : n \in AsgKeys(a)}
          raising  == {n \in assigned : Len(AsgGet(a, n)) <= Overlap(var, n)[2]}
          differ   == {n \in assigned \ raising :
                         Char(AsgGet(a, n), Overlap(var, n)[2])
                           # Char(word, Overlap(var, n)[1])}
      IN  IF \E m \in 1..(k - 1) : a[m][2] = word THEN {"False"}
          ELSE IF var.length # Len(word) THEN {"False"}
          ELSE (IF differ # {} THEN {"False"} ELSE {})
               \cup (IF raising # {} THEN {"IndexError"} ELSE {})
               \cup (IF differ = {} /\ raising = {}
                     THEN ConsistentFrom(a, k + 1) ELSE {})

ConsistentOutcomes(a) == ConsistentFrom(a, 1)

-----------------------------------------------------------------------------
(* select_unassigned_variable *)

min_remaining_values == 1000000

current_highest_degree == 0

\* the test of the loop body; neither bound is ever updated by the loop
Selects(a, var) ==
    /\ var \notin AsgKeys(a)
    /\ \/ Cardinality(domains[var]) < min_remaining_values
       \/ /\ Cardinality(domains[var]) = min_remaining_values
          /\ Cardinality(Neighbors(var)) > current_highest_degree

\* current_var after the loop over self.domains.items(): the last hit, or None
SelectUnassignedVariable(a) ==
    LET hits == {k \in DOMAIN order : Selects(a, order[k])}
    IN  IF hits = {} THEN NoVar
        ELSE order[CHOOSE k \in hits : \A m \in hits : m <= k]

-----------------------------------------------------------------------------
(* order_domain_values *)

\* faulty variant: the number of words that stay, not the number removed
OverlapCountKept(char, spot, var) ==
    Cardinality({word \in domains[var] : Char(word, spot) = char})

\* overlap_count(char, spot, var)
OverlapCount(char, spot, var) ==
    Cardinality(domains[var])
      - Cardinality({word \in domains[var] : Char(word, spot) = char})

\* sort_function(word), summed over the unassigned neighbours
RECURSIVE SortFunction(_, _, _)
SortFunction(var, neighbors, word) ==
    IF neighbors = {} THEN 0
    ELSE LET neigh == CHOOSE n \in neighbors : TRUE
             overlap == Overlap(var, neigh)
         IN  OverlapCount(Char(word, overlap[1]), overlap[2], neigh)
               + SortFunction(var, neighbors \ {neigh}, word)

\* the sort key of every word of var's domain: no key is computed (all words
\* rank alike) when var has no unassigned neighbour
SortKeys(var, a) ==
    LET neighbors == {v \in Neighbors(var) : v \notin AsgKeys(a)}
    IN  [word \in domains[var] |->
           IF neighbors = {} THEN 0 ELSE SortFunction(var, neighbors, word)]

\* The lists order_domain_values(var, a) can return: the words of the domain,
\* sorted by key; words of equal key come in the set's own iteration order.
OrderDomainValues(var, a) ==
    LET keys == SortKeys(var, a)
    IN  {s \in Perms(domains[var]) :
           \A p, q \in DOMAIN s : p < q => keys[s[p]] <= keys[s[q]]}

-----------------------------------------------------------------------------
(* solve and backtrack *)

\* creator.solve(): enforce_node_consistency, then ac3, then backtrack(dict())
CallSolve ==
    /\ CanCall
    /\ Started("solve", <<>>)
    /\ \E o \in EnforceOutcomes(domains) :
         /\ domains' = o.domains
         /\ IF o.kind = "KeyError"
            THEN /\ ret' = Ret("KeyError")
                 /\ UNCHANGED <<pc, arc_queue>>
            ELSE /\ pc' = "ac3"
                 /\ arc_queue' = InitialArcs
                 /\ UNCHANGED ret
    /\ assignment' = <<>>
    /\ frames' = <<>>
    /\ UNCHANGED <<crossword, order, solutions, result>>

\* a backtrack call returns: its frame leaves the stack of active calls
Pop(s) == SubSeq(s, 1, Len(s) - 1)

\* faulty variant: the entry stays in the assignment
DelKept(a, var) == a

\* del assignment[var]
Del(a, var) ==
    LET Other(item) == item[1] # var
    IN  SelectSeq(a, Other)

\* Entry of backtrack(assignment): return it when complete, else select the
\* variable and order its words. The frame keeps the sort keys of the ordered
\* list and the words the for loop has passed: the next word of the list is a
\* word of least key among those left.
BtEnter ==
    /\ pc = "bt_call"
    /\ IF AssignmentComplete(assignment)
       THEN /\ result' = [kind |-> "assignment", val |-> assignment]
            /\ pc' = "bt_return"
            /\ UNCHANGED <<frames, ret>>
       ELSE LET new_var == SelectUnassignedVariable(assignment)
            IN  IF new_var = NoVar
                THEN /\ pc' = "idle"
                     /\ ret' = Ret("KeyError")
                     /\ UNCHANGED <<frames, result>>
                ELSE /\ frames' = Append(frames,
                                          [var |-> new_var,
                                           keys |-> SortKeys(new_var, assignment),
                                           tried |-> {},
                                           entered |-> assignment])
                     /\ pc' = "bt_loop"
                     /\ UNCHANGED <<result, ret>>
    /\ UNCHANGED <<crossword, order, solutions, domains, op, arg, arc_queue, assignment,
                   before, prev, ncalls>>

\* one iteration of backtrack's for loop, or "return None" after the last
BtLoop ==
    /\ pc = "bt_loop"
    /\ LET top == Len(frames)
           f   == frames[top]
           left == DOMAIN f.keys \ f.tried
       IN  IF left = {}
           THEN /\ frames' = Pop(frames)
                /\ result' = Ret("None")
                /\ pc' = "bt_return"
                /\ UNCHANGED <<assignment, ret>>
           ELSE \E word \in {w \in left : \A u \in left : f.keys[w] <= f.keys[u]} :
                  LET updated == Append(assignment, <<f.var, word>>)
                  IN
                    \E is_consistant \in ConsistentOutcomes(updated) :
                      /\ frames' = [frames EXCEPT ![top].tried = f.tried \cup {word}]
                      /\ IF is_consistant = "True"
                         THEN /\ assignment' = updated
                              /\ pc' = "bt_call"
                              /\ UNCHANGED <<result, ret>>
                         ELSE IF is_consistant = "False"
                         THEN UNCHANGED <<assignment, pc, result, ret>>
                         ELSE /\ pc' = "idle"
                              /\ ret' = Ret("IndexError")
                              /\ assignment' = updated
                              /\ UNCHANGED result
    /\ UNCHANGED <<crossword, order, solutions, domains, op, arg, arc_queue,
                   before, prev, ncalls>>

\* a backtrack call returns result: to solve's caller, or into the for loop of
\* the calling backtrack
BtReturn ==
    /\ pc = "bt_return"
    /\ IF frames = <<>>
       THEN /\ pc' = "idle"
            /\ ret' = result
            /\ UNCHANGED <<frames, assignment>>
       ELSE IF result.kind # "None" /\ "True" \in ConsistentOutcomes(result.val)
       THEN /\ frames' = Pop(frames)
            /\ UNCHANGED <<pc, ret, assignment>>
       ELSE /\ assignment' = Del(assignment, frames[Len(frames)].var)
            /\ pc' = "bt_loop"
            /\ UNCHANGED <<frames, ret>>
    /\ UNCHANGED <<crossword, order, solutions, domains, op, arg, arc_queue, result,
                   before, prev, ncalls>>

\* the assignments a caller can hand to consistent(): any mapping from some of
\* the variables to words of the dictionary, in any insertion order
ProbeAssignments ==
    UNION { {a \in [1..n -> crossword.variables \X crossword.words] :
               \A p, q \in 1..n : a[p][1] = a[q][1] => p = q} :
            n \in 0..Cardinality(crossword.variables) }

\* a constructed solver and an assignment to query it with
InitConsistent ==
    \E s \in Structures, W \in Dictionaries :
      \E o \in Perms(VariablesOf(s)) :
        /\ Constructed(s, W, o)
        /\ arg \in ProbeAssignments

\* creator.consistent(arg)
CallConsistent ==
    /\ pc = "idle"
    /\ op = "init"
    /\ op' = "consistent"
    /\ ncalls' = ncalls + 1
    /\ \E c \in ConsistentOutcomes(arg) : ret' = Ret(c)
    /\ UNCHANGED <<crossword, order, solutions, domains, pc, arg, arc_queue, frames,
                   assignment, result, before, prev>>

Next ==
    \/ CallEnforce
    \/ CallRevise
    \/ CallAc3
    \/ Ac3Step
    \/ CallSolve
    \/ BtEnter
    \/ BtLoop
    \/ BtReturn

Spec == Init /\ [][Next]_vars

\* The propagation calls alone, ac3 with a worklist of the caller's included.
\* ac3's while loop runs on by itself until it returns or raises: once entered,
\* its next iteration is always taken.
NextPropagate ==
    \/ CallEnforce
    \/ CallRevise
    \/ CallAc3
    \/ CallAc3Arcs
    \/ Ac3Step

SpecPropagate == Init /\ [][NextPropagate]_vars /\ WF_vars(Ac3Step)

\* the solver's pure query consistent(), called on assignments of any shape
NextConsistent == CallConsistent

SpecConsistent == InitConsistent /\ [][NextConsistent]_vars

\* A grid of one row of five fillable cells: one variable, across, length 5
OneRow == [height |-> 1, width |-> 5, open |-> {<<0, k>> : k \in 0..4}]

\* A solver constructed on OneRow with a large dictionary of n words of length
\* 5, as backtrack(dict()) finds it: enforce_node_consistency removes no word
\* and ac3 has no arc. The words are numbered 1..n: the selection reads only
\* how many words a domain holds.
InitSelect ==
    \E n \in (min_remaining_values - MaxAway)..(min_remaining_values + MaxAway) :
      /\ crossword = [variables |-> VariablesOf(OneRow), words |-> 1..n]
      /\ order \in Perms(VariablesOf(OneRow))
      /\ domains = [v \in VariablesOf(OneRow) |-> 1..n]
      /\ pc = "idle"
      /\ op = "init"
      /\ arg = <<>>
      /\ ret = Ret("None")
      /\ arc_queue = <<>>
      /\ frames = <<>>
      /\ assignment = <<>>
      /\ result = Ret("None")
      /\ before = [v \in VariablesOf(OneRow) |-> 1..n]
      /\ prev = [op |-> "init", kind |-> "None"]
      /\ ncalls = 0
      /\ solutions = {}

\* new_var = self.select_unassigned_variable(assignment), as backtrack calls it
\* on the assignment arg
CallSelect ==
    /\ pc = "idle"
    /\ op = "init"
    /\ op' = "select_unassigned_variable"
    /\ ncalls' = ncalls + 1
    /\ LET current_var == SelectUnassignedVariable(arg)
       IN  ret' = [kind |-> IF current_var = NoVar THEN "None" ELSE "variable",
                   val |-> current_var]
    /\ UNCHANGED <<crossword, order, solutions, domains, pc, arg, arc_queue, frames,
                   assignment, result, before, prev>>

\* the selection of backtrack's first call, on large dictionaries
NextSelect == CallSelect

SpecSelect == InitSelect /\ [][NextSelect]_vars

-----------------------------------------------------------------------------
(* What the claims speak of *)

\* a call of the named operation has just ended (returned or raised)
Ended(name) == pc = "idle" /\ op = name

\* the call that just ended was the first one on a freshly constructed solver
OnFresh == prev.op = "init"

\* an assignment (items in insertion order) as a mapping
AsMapping(a) == [v \in AsgKeys(a) |-> AsgGet(a, v)]

\* f agrees with every item of the partial assignment a
Extends(f, a) == \A k \in DOMAIN a : f[a[k][1]] = a[k][2]

-----------------------------------------------------------------------------
\* C1. Soundness: when solve (enforce_node_consistency, ac3, backtrack on the
\* empty assignment) returns an assignment, the assignment binds every
\* crossword variable, consistent returns true on it, and every bound word is a
\* word of the dictionary.
C1_Soundness ==
    (Ended("solve") /\ ret.kind = "assignment") =>
        /\ AsgKeys(ret.val) = crossword.variables
        /\ Len(ret.val) = Cardinality(crossword.variables)
        /\ ConsistentOutcomes(ret.val) = {"True"}
        /\ \A k \in DOMAIN ret.val : ret.val[k][2] \in crossword.words

\* solve returned an assignment of a grid with crossing variables
C1_Witness ==
    /\ Ended("solve")
    /\ ret.kind = "assignment"
    /\ Len(ret.val) >= 2
    /\ \E v \in crossword.variables : Neighbors(v) # {}

C9_NodeConsistency ==
    (Ended("enforce_node_consistency") /\ OnFresh) =>
        /\ ret.kind = "None"
        /\ \A v \in crossword.variables :
              domains[v] = {w \in crossword.words : Len(w) = v.length}

\* enforce_node_consistency ran on a fresh store, removed a word from some
\* domain and kept a word in some domain
C9_Witness ==
    /\ Ended("enforce_node_consistency")
    /\ OnFresh
    /\ \E v \in crossword.variables : domains[v] # before[v]
    /\ \E v \in crossword.variables : domains[v] # {}

\* C10. enforce_node_consistency never fails: whatever calls of
\* enforce_node_consistency, revise, ac3 and solve came before on the same
\* solver, a call of it (directly, or as the first step of solve) ends without
\* raising.
C10_EnforceNeverFails ==
    /\ Ended("enforce_node_consistency") => ret.kind = "None"
    /\ Ended("solve") => ret.kind # "KeyError"

\* the store dom is arc consistent: for every ordered pair (x, y) with an
\* overlap (kx, ky), every word of x's domain has a word of y's domain with
\* the same character at the overlap
Supported(dom, x, y, w) ==
    /\ Len(w) > Overlap(x, y)[1]
    /\ \E w2 \in dom[y] :
          /\ Len(w2) > Overlap(x, y)[2]
          /\ Char(w, Overlap(x, y)[1]) = Char(w2, Overlap(x, y)[2])

ArcConsistent(dom) ==
    \A x, y \in crossword.variables :
       (x # y /\ Overlap(x, y) # NoOverlap) =>
          \A w \in dom[x] : Supported(dom, x, y, w)

NodeConsistent(dom) ==
    \A v \in crossword.variables : \A w \in dom[v] : Len(w) = v.length

\* the largest arc-consistent store inside dom: unsupported words are removed
\* from every domain until none is left
RECURSIVE MaxArcConsistent(_)
MaxArcConsistent(dom) ==
    LET pruned == [x \in DOMAIN dom |->
                     {w \in dom[x] :
                        \A y \in crossword.variables :
                           (x # y /\ Overlap(x, y) # NoOverlap) =>
                              Supported(dom, x, y, w)}]
    IN  IF pruned = dom THEN dom ELSE MaxArcConsistent(pruned)

\* C3. Arc-consistency fixed point: when ac3, started with the default worklist,
\* has run to completion without reporting inconsistency, every word of every
\* domain has a supporting word across every overlap.
C3_ArcConsistentAfterAc3 ==
    (Ended("ac3") /\ arg = <<>> /\ ret.kind = "None") => ArcConsistent(domains)

\* C4. Idempotence of ac3: a run of ac3 right after a run of ac3 that finished
\* without reporting inconsistency removes no word from any domain.
C4_Ac3Idempotent ==
    (Ended("ac3") /\ prev.op = "ac3" /\ prev.kind = "None") => domains = before

\* C5. Order independence of ac3: on a node-consistent store, the domains left
\* when ac3 finishes without reporting inconsistency do not depend on the order
\* of the worklist or of the neighbour sets: they are the unique maximal
\* arc-consistent state of the store ac3 started from.
C5_Ac3OrderIndependent ==
    (Ended("ac3") /\ arg = <<>> /\ ret.kind = "None" /\ NodeConsistent(before)) =>
        domains = MaxArcConsistent(before)

\* the unassigned variables for a partial assignment a
Unassigned(a) == crossword.variables \ AsgKeys(a)

\* C6. select_unassigned_variable returns an unassigned variable of minimum
\* domain size and, among the unassigned variables of that size, one with the
\* maximum number of neighbours: checked on every selection backtrack makes.
C6_SelectsMinimumRemaining ==
    (pc = "bt_loop" /\ frames[Len(frames)].tried = {}) =>
        LET var  == frames[Len(frames)].var
            size(v) == Cardinality(domains[v])
            degree(v) == Cardinality(Neighbors(v))
        IN  /\ var \in Unassigned(assignment)
            /\ \A v \in Unassigned(assignment) : size(var) <= size(v)
            /\ \A v \in Unassigned(assignment) :
                  size(v) = size(var) => degree(var) >= degree(v)

\* the number of neighbour n's candidate words that become inconsistent with
\* var across their overlap when var takes word
RuledOut(var, word, n) ==
    Cardinality({w2 \in domains[n] :
                   Char(w2, Overlap(var, n)[2]) # Char(word, Overlap(var, n)[1])})

RECURSIVE RuledOutIn(_, _, _)
RuledOutIn(var, word, N) ==
    IF N = {} THEN 0
    ELSE LET n == CHOOSE m \in N : TRUE
         IN  RuledOut(var, word, n) + RuledOutIn(var, word, N \ {n})

\* the elimination count of word for var under the partial assignment a: summed
\* over the neighbours of var that a does not assign
EliminationCount(var, a, word) ==
    RuledOutIn(var, word, Neighbors(var) \ AsgKeys(a))

C8_ConsistentIffConstraints ==
    Ended("consistent") =>
        /\ ret.kind \in {"True", "False"}
        /\ ret.kind = "True" <=> Satisfies(AsMapping(arg))

\* some domain of the store is empty
SomeDomainEmpty == \E v \in crossword.variables : domains[v] = {}

\* C11. The value ac3 returns: whenever ac3 finishes without raising, it has
\* returned False if one or more domains are empty at that moment (domains
\* that were empty before ac3 started and domains of variables without
\* neighbours included), and it has returned True if the store is arc
\* consistent and every domain is non-empty.
C11_Ac3ReturnValue ==
    (Ended("ac3") /\ crossword.variables # {} /\ ret.kind # "IndexError") =>
        /\ SomeDomainEmpty => ret.kind = "False"
        /\ (ArcConsistent(domains) /\ ~SomeDomainEmpty) => ret.kind = "True"

\* C12. revise(x, y) for distinct variables x and y: without an overlap it
\* changes nothing and returns False; with the overlap (kx, ky) it removes from
\* x's domain exactly the words w for which no word w' of y's domain has
\* w[kx] = w'[ky], leaves every other domain as it was, and returns True
\* exactly when it removed a word.
C12_ReviseContract ==
    Ended("revise") =>
        LET x == arg[1]
            y == arg[2]
            unsupported == {w \in before[x] : ~Supported(before, x, y, w)}
        IN  IF Overlap(x, y) = NoOverlap
            THEN domains = before /\ ret.kind = "False"
            ELSE /\ domains = [before EXCEPT ![x] = before[x] \ unsupported]
                 /\ ret.kind = (IF unsupported = {} THEN "False" ELSE "True")

\* C13. Monotonic shrink: across every step of enforce_node_consistency,
\* revise, ac3 and backtrack (solve), every variable's domain after the step is
\* a subset of its domain before the step, and every domain is always a subset
\* of the dictionary: no step adds a word to a domain.
C13_MonotonicShrink ==
    /\ [](\A v \in crossword.variables : domains[v] \subseteq crossword.words)
    /\ [][\A v \in crossword.variables : domains'[v] \subseteq domains[v]]_vars

\* ac3 is in its loop and has removed a word from a domain that still holds one
C13_Witness ==
    /\ pc = "ac3"
    /\ \E v \in crossword.variables :
          /\ domains[v] # before[v]
          /\ domains[v] \subseteq before[v]
          /\ domains[v] # {}

\* the grid has a variable and no dictionary word fits any variable
NoWordFits ==
    /\ crossword.variables # {}
    /\ \A v \in crossword.variables : \A w \in crossword.words : Len(w) # v.length

\* C14. When the grid has at least one variable and every dictionary word has
\* the wrong length for every variable: enforce_node_consistency on the
\* constructed solver leaves every domain empty, ac3 called next reports
\* inconsistency (returns False), and the backtrack on the empty assignment
\* that solve runs returns "no solution"; none of them raises.
C14_NoWordFits ==
    NoWordFits =>
        /\ (Ended("enforce_node_consistency") /\ OnFresh) =>
              /\ ret.kind = "None"
              /\ \A v \in crossword.variables : domains[v] = {}
        /\ (Ended("ac3") /\ ncalls = 2 /\ prev.op = "enforce_node_consistency") =>
              ret.kind = "False"
        /\ (Ended("solve") /\ OnFresh) => ret.kind = "None"

\* the grid of exactly two variables, one down and one across, both of length
\* 3, that share the cell at index 0 of each
TwoCrossing ==
    /\ Cardinality(crossword.variables) = 2
    /\ \A v \in crossword.variables : v.length = 3
    /\ \E d, a \in crossword.variables :
          d.direction = DOWN /\ a.direction = ACROSS /\ Overlap(d, a) = <<0, 0>>

DownVar == CHOOSE v \in crossword.variables : v.direction = DOWN

AcrossVar == CHOOSE v \in crossword.variables : v.direction = ACROSS

ABC == <<"A", "B", "C">>

ADE == <<"A", "D", "E">>

XYZ == <<"X", "Y", "Z">>

\* the complete assignment with word d down and word a across
Filled(d, a) == [v \in crossword.variables |-> IF v = DownVar THEN d ELSE a]

\* no two distinct words of length 3 of the dictionary have the same first letter
NoCompatiblePair ==
    \A w, u \in crossword.words :
       (w # u /\ Len(w) = 3 /\ Len(u) = 3) => Char(w, 0) # Char(u, 0)

\* C15 as stated: on the two-variable grid with dictionary {ABC, ADE, XYZ} the
\* puzzle has the unique solution ABC down and ADE across and solve returns it;
\* with a dictionary without two distinct words of length 3 that agree on the
\* first letter, solve returns "no solution".
C15_UniqueSolution ==
    TwoCrossing =>
        /\ (crossword.words = {ABC, ADE, XYZ} /\ Ended("solve")) =>
              /\ solutions = {Filled(ABC, ADE)}
              /\ ret.kind = "assignment"
              /\ AsMapping(ret.val) = Filled(ABC, ADE)
        /\ (NoCompatiblePair /\ Ended("solve") /\ OnFresh) => ret.kind = "None"

\* C15, amended: on the two-variable grid with dictionary {ABC, ADE, XYZ} the
\* puzzle has exactly two solutions, ABC and ADE with either one down and the
\* other across, and solve returns one of the two; with a dictionary without
\* two distinct words of length 3 that agree on the first letter, solve on the
\* constructed solver returns "no solution".
C15_TwoSolutions ==
    TwoCrossing =>
        /\ crossword.words = {ABC, ADE, XYZ} =>
              /\ solutions = {Filled(ABC, ADE), Filled(ADE, ABC)}
              /\ Ended("solve") =>
                    /\ ret.kind = "assignment"
                    /\ AsMapping(ret.val) \in solutions
        /\ (NoCompatiblePair /\ Ended("solve") /\ OnFresh) => ret.kind = "None"

\* solve on the two-variable grid with {ABC, ADE, XYZ} returned ADE down and
\* ABC across
C15_Witness ==
    /\ TwoCrossing
    /\ crossword.words = {ABC, ADE, XYZ}
    /\ Ended("solve")
    /\ ret.kind = "assignment"
    /\ AsMapping(ret.val) = Filled(ADE, ABC)

\* the arcs at the end of arc_queue' beyond what was left after the pop
Enqueued == SubSeq(arc_queue', Len(arc_queue), Len(arc_queue'))

\* C16. In every iteration of ac3's loop that goes on to the next: when revise
\* on the popped arc (x, y) removed a word from x's domain and left it
\* non-empty, the arcs added to the worklist are exactly the arcs (x, neighbor)
\* for the neighbors of x other than y, each once, so (x, y) is not among them;
\* when revise removed nothing, the worklist is what the pop left.
C16_Requeue ==
    [][(pc = "ac3" /\ arc_queue # <<>> /\ pc' = "ac3") =>
          LET x == Popped(arc_queue)[1]
              y == Popped(arc_queue)[2]
          IN  /\ Len(arc_queue') >= Len(arc_queue) - 1
              /\ SubSeq(arc_queue', 1, Len(arc_queue) - 1) = Rest(arc_queue)
              /\ IF domains'[x] # domains[x]
                 THEN /\ {Enqueued[k] : k \in DOMAIN Enqueued}
                           = {<<x, n>> : n \in Neighbors(x) \ {y}}
                      /\ Len(Enqueued) = Cardinality(Neighbors(x) \ {y})
                 ELSE Enqueued = <<>>]_vars

\* the number of words in all the domains
RECURSIVE WordsIn(_, _)
WordsIn(dom, V) ==
    IF V = {} THEN 0
    ELSE LET v == CHOOSE u \in V : TRUE
         IN  Cardinality(dom[v]) + WordsIn(dom, V \ {v})

\* what is left for ac3 to do: a revise that removes a word adds fewer arcs
\* than there are variables, so every iteration of the loop makes this smaller
Ac3Work(dom, queue) ==
    Cardinality(crossword.variables) * WordsIn(dom, crossword.variables)
      + Len(queue)

\* C17. Termination of ac3: from every store the propagation calls can leave
\* and every initial worklist (the default one, or one the caller gives), ac3
\* stops: the natural number Ac3Work gets smaller in every iteration of the
\* loop that does not end the call, so the loop, which always takes its next
\* iteration, cannot go on forever; and an iteration adds arcs to the worklist
\* only when its revise has strictly shrunk the domain of the popped arc's
\* first variable.
C17_Ac3Terminates ==
    /\ [][(pc = "ac3" /\ pc' = "ac3") =>
             /\ Ac3Work(domains', arc_queue') < Ac3Work(domains, arc_queue)
             /\ Ac3Work(domains', arc_queue') >= 0]_vars
    /\ [][(pc = "ac3" /\ arc_queue # <<>> /\ Len(arc_queue') >= Len(arc_queue)) =>
             LET x == Popped(arc_queue)[1]
             IN  domains'[x] \subseteq domains[x] /\ domains'[x] # domains[x]]_vars

\* a running ac3 eventually ends (returns or raises)
Ac3EventuallyEnds == (pc = "ac3") ~> Ended("ac3")

\* ac3, called with a worklist of the caller's, removed a word, re-enqueued
\* arcs and ran until the worklist was empty
C17_Witness ==
    /\ Ended("ac3")
    /\ arg # <<>>
    /\ ret.kind = "None"
    /\ domains # before
    /\ ~SomeDomainEmpty

\* a step of backtrack, with the calls of assignment_complete,
\* select_unassigned_variable, order_domain_values and consistent it makes
InBacktrack == pc \in {"bt_call", "bt_loop", "bt_return"}

\* C18. Backtracking leaves no residue: no step of backtrack (its calls of
\* select_unassigned_variable, order_domain_values and consistent included)
\* changes a domain; a backtrack call that returns "no solution" returns with
\* the assignment holding exactly the entries it held when the call was
\* entered; and between two candidates of its loop the assignment is again
\* what it was at entry, so every candidate is tried on the same assignment
\* and domains.
C18_NoResidue ==
    /\ [][InBacktrack => domains' = domains]_vars
    /\ [][(pc = "bt_loop" /\ pc' = "bt_return") =>
             /\ result'.kind = "None"
             /\ assignment' = frames[Len(frames)].entered]_vars
    /\ [](pc = "bt_loop" => assignment = frames[Len(frames)].entered)

\* a backtrack call entered with a non-empty assignment has returned "no
\* solution", before its caller deletes the entry it had added
C18_Witness ==
    /\ pc = "bt_return"
    /\ result.kind = "None"
    /\ frames # <<>>
    /\ assignment # <<>>
    /\ Len(assignment) = Len(frames)

\* C19. In every state backtrack reaches from the empty assignment, while the
\* assignment is not complete select_unassigned_variable returns a crossword
\* variable that is not a key of the assignment (never None, never an assigned
\* variable); so every active backtrack call has bound a variable its callers
\* had not, and there are never more active calls than variables.
C19_SelectsUnassigned ==
    /\ (Ended("select_unassigned_variable") /\ ~AssignmentComplete(arg)) =>
          /\ ret.kind = "variable"
          /\ ret.val \in Unassigned(arg)
    /\ \A k \in DOMAIN frames :
          /\ frames[k].var \in Unassigned(frames[k].entered)
          /\ \A m \in 1..(k - 1) : frames[m].var # frames[k].var
    /\ Len(frames) <= Cardinality(crossword.variables)

\* C20. Tie-break of select_unassigned_variable, on every selection backtrack
\* makes: no unassigned variable with the same domain size and the same degree
\* as the returned variable comes before it in the iteration order of
\* self.domains; among tied variables the first one encountered is returned.
C20_FirstOfTied ==
    (pc = "bt_loop" /\ frames[Len(frames)].tried = {}) =>
        LET var == frames[Len(frames)].var
            size(v) == Cardinality(domains[v])
            degree(v) == Cardinality(Neighbors(v))
        IN  \A v \in Unassigned(assignment) :
               (size(v) = size(var) /\ degree(v) = degree(var)) =>
                  Pos(var) <= Pos(v)

====
